---- MODULE Spec2Model ----
(***************************************************************************)
(* The /api/verify handler of the mini-app backend                         *)
(* (backend/controllers/verifyController.js): it checks the HMAC of the    *)
(* Telegram init data under the bot token and, when the check passes,      *)
(* appends client_id and signs the result again under the client secret.   *)
(*                                                                         *)
(* A string is a sequence of code units.  A code unit is written as a      *)
(* one-character TLA+ string; the 64 hexadecimal characters of one         *)
(* HMAC-SHA256 digest are written as one unit (see HexDigest).             *)
(***************************************************************************)
EXTENDS Integers, Sequences, FiniteSets, Bags, TLC

(***************************************************************************)
(* Characters                                                              *)
(***************************************************************************)

\* The printable ASCII characters in code unit order, U+0020 .. U+007E
\* (the grave accent cannot be written in a TLA+ string; it is named).
Printable ==
  << " ", "!", "\"", "#", "$", "%", "&", "'", "(", ")", "*", "+", ",", "-",
     ".", "/", "0", "1", "2", "3", "4", "5", "6", "7", "8", "9", ":", ";",
     "<", "=", ">", "?", "@", "A", "B", "C", "D", "E", "F", "G", "H", "I",
     "J", "K", "L", "M", "N", "O", "P", "Q", "R", "S", "T", "U", "V", "W",
     "X", "Y", "Z", "[", "\\", "]", "^", "_", "U+0060", "a", "b", "c", "d", "e",
     "f", "g", "h", "i", "j", "k", "l", "m", "n", "o", "p", "q", "r", "s",
     "t", "u", "v", "w", "x", "y", "z", "{", "|", "}", "~" >>

Chars == {Printable[i] : i \in 1..Len(Printable)} \cup {"\n"}

\* The UTF-16 code unit of a character (the order String comparison uses).
CodeUnit ==
  [c \in Chars |->
     IF c = "\n" THEN 10
     ELSE 31 + (CHOOSE i \in 1..Len(Printable) : Printable[i] = c)]

\* What a byte decodes to; bytes outside the table decode to U+FFFD.
ByteToChar(b) ==
  IF b = 10 THEN "\n"
  ELSE IF b >= 32 /\ b <= 126 THEN Printable[b - 31]
  ELSE "U+FFFD"

UpperHex == << "0", "1", "2", "3", "4", "5", "6", "7", "8", "9",
               "A", "B", "C", "D", "E", "F" >>

LowerHex == << "0", "1", "2", "3", "4", "5", "6", "7", "8", "9",
               "a", "b", "c", "d", "e", "f" >>

IsHexDigit(c) == \E i \in 1..16 : UpperHex[i] = c \/ LowerHex[i] = c

HexValue(c) == (CHOOSE i \in 1..16 : UpperHex[i] = c \/ LowerHex[i] = c) - 1

IsAlnum(c) ==
  /\ c \in Chars
  /\ \/ CodeUnit[c] \in 48..57
     \/ CodeUnit[c] \in 65..90
     \/ CodeUnit[c] \in 97..122

\* A unit that is not one character is the hexadecimal text of a digest.
IsDigestUnit(c) == c \notin Chars /\ c # "U+FFFD"

(***************************************************************************)
(* Sequence helpers                                                        *)
(***************************************************************************)

RECURSIVE Flatten(_)
Flatten(ss) == IF ss = << >> THEN << >> ELSE Head(ss) \o Flatten(Tail(ss))

\* s.slice(0, -1)
SliceDropLast(s) == SubSeq(s, 1, Len(s) - 1)

\* The first index of unit c in s, or 0.
IndexOf(s, c) ==
  IF \E i \in 1..Len(s) : s[i] = c
  THEN CHOOSE i \in 1..Len(s) : s[i] = c /\ \A j \in 1..(i - 1) : s[j] # c
  ELSE 0

\* s split at every unit c (empty pieces are kept).
RECURSIVE Split(_, _)
Split(s, c) ==
  LET i == IndexOf(s, c)
  IN  IF i = 0 THEN << s >>
      ELSE << SubSeq(s, 1, i - 1) >> \o Split(SubSeq(s, i + 1, Len(s)), c)

(***************************************************************************)
(* JavaScript values                                                       *)
(***************************************************************************)

\* The value undefined and the value null: distinct from every string.
Undefined == << "undefined" >>

Null == << "null" >>

IsString(x) == x # Undefined /\ x # Null

\* Conversion of an argument to a string (WebIDL USVString).
ToUSVString(x) ==
  IF x = Undefined THEN << "u", "n", "d", "e", "f", "i", "n", "e", "d" >>
  ELSE IF x = Null THEN << "n", "u", "l", "l" >>
  ELSE x

(***************************************************************************)
(* crypto.createHmac                                                       *)
(***************************************************************************)

\* createHmac('sha256', key).update(msg).digest(): the raw digest, as the
\* term of an ideal (collision-free) keyed hash.
Hmac(key, msg) == << "HMAC-SHA256", key, msg >>

\* .digest('hex'): the 64 lowercase hexadecimal characters of a digest,
\* written as one unit that names the digest.
HexDigest(d) == << ToString(d) >>

\* hmac.update(data) throws a TypeError unless data is a string or a buffer.
UpdateThrows(data) == ~IsString(data)

WebAppData == << "W", "e", "b", "A", "p", "p", "D", "a", "t", "a" >>

\* The signature with the derived key taken as hexadecimal text.
SignHexTextKey(secret, checkString) ==
  HexDigest(Hmac(HexDigest(Hmac(WebAppData, secret)), checkString))

\* The two-step signature: the key is the raw digest of the secret under
\* the key 'WebAppData'.
SignHex(secret, checkString) ==
  HexDigest(Hmac(Hmac(WebAppData, secret), checkString))

(***************************************************************************)
(* URLSearchParams                                                         *)
(***************************************************************************)

Pair(n, v) == [name |-> n, value |-> v]

k_hash == << "h", "a", "s", "h" >>

k_client_id == << "c", "l", "i", "e", "n", "t", "_", "i", "d" >>

PlusToSpace(s) == [i \in 1..Len(s) |-> IF s[i] = "+" THEN " " ELSE s[i]]

\* Percent-decoding: %XX with two hexadecimal digits is one byte, any
\* other % stands for itself.
RECURSIVE PercentDecode(_)
PercentDecode(s) ==
  IF s = << >> THEN << >>
  ELSE IF s[1] = "%" /\ Len(s) >= 3 /\ IsHexDigit(s[2]) /\ IsHexDigit(s[3])
       THEN << ByteToChar(16 * HexValue(s[2]) + HexValue(s[3])) >>
            \o PercentDecode(SubSeq(s, 4, Len(s)))
       ELSE << s[1] >> \o PercentDecode(Tail(s))

\* One name=value piece of a query string, split at its first "=".
ParsePiece(piece) ==
  LET i == IndexOf(piece, "=")
      n == IF i = 0 THEN piece ELSE SubSeq(piece, 1, i - 1)
      v == IF i = 0 THEN << >> ELSE SubSeq(piece, i + 1, Len(piece))
  IN  Pair(PercentDecode(PlusToSpace(n)), PercentDecode(PlusToSpace(v)))

RECURSIVE ParsePieces(_)
ParsePieces(pieces) ==
  IF pieces = << >> THEN << >>
  ELSE IF Head(pieces) = << >> THEN ParsePieces(Tail(pieces))
       ELSE << ParsePiece(Head(pieces)) >> \o ParsePieces(Tail(pieces))

\* The application/x-www-form-urlencoded parser, after the constructor
\* has dropped one leading "?".
ParseQuery(text) ==
  LET t == IF text # << >> /\ text[1] = "?" THEN Tail(text) ELSE text
  IN  ParsePieces(Split(t, "&"))

\* The request body, as express.json() leaves it in req.body:
\*   present   FALSE when req.body is undefined,
\*   type      the type of body.initData: "undefined", "string", "array",
\*   text      the string, items  the elements of the array.
MkBody(present, type, text, items) ==
  [present |-> present, type |-> type, text |-> text, items |-> items]

\* new URLSearchParams(init) throws a TypeError for a sequence with an
\* element that is not a [name, value] tuple.
ConstructorThrows(body) ==
  /\ body.type = "array"
  /\ \E i \in 1..Len(body.items) : Len(body.items[i]) # 2

\* new URLSearchParams(init)
NewURLSearchParams(body) ==
  IF body.type = "undefined" THEN << >>
  ELSE IF body.type = "string" THEN ParseQuery(body.text)
  ELSE [i \in 1..Len(body.items) |->
          Pair(body.items[i][1], body.items[i][2])]

\* params.get(name): the value of the first pair with that name, or null.
Get(params, n) ==
  IF \E i \in 1..Len(params) : params[i].name = n
  THEN params[CHOOSE i \in 1..Len(params) :
                 /\ params[i].name = n
                 /\ \A j \in 1..(i - 1) : params[j].name # n].value
  ELSE Null

\* Only the first pair with that name is removed.
DeleteFirst(params, n) ==
  IF \E i \in 1..Len(params) : params[i].name = n
  THEN LET i == CHOOSE k \in 1..Len(params) :
                  /\ params[k].name = n
                  /\ \A j \in 1..(k - 1) : params[j].name # n
       IN  SubSeq(params, 1, i - 1) \o SubSeq(params, i + 1, Len(params))
  ELSE params

\* params.delete(name): every pair with that name is removed.
Delete(params, n) == SelectSeq(params, LAMBDA p : p.name # n)

\* The pair set rather than appended: it takes the place of the pairs
\* that have the name.
AppendPairReplacing(params, n, v) ==
  Append(SelectSeq(params, LAMBDA p : p.name # n), Pair(n, ToUSVString(v)))

\* params.append(name, value)
AppendPair(params, n, v) == Append(params, Pair(n, ToUSVString(v)))

\* a < b in code unit order.
RECURSIVE NameLess(_, _)
NameLess(a, b) ==
  IF b = << >> THEN FALSE
  ELSE IF a = << >> THEN TRUE
  ELSE IF CodeUnit[a[1]] # CodeUnit[b[1]] THEN CodeUnit[a[1]] < CodeUnit[b[1]]
  ELSE NameLess(Tail(a), Tail(b))

\* p put into a sorted list behind every pair whose name is not greater.
RECURSIVE InsertSorted(_, _)
InsertSorted(sorted, p) ==
  IF sorted = << >> THEN << p >>
  ELSE IF NameLess(p.name, Head(sorted).name) THEN << p >> \o sorted
  ELSE << Head(sorted) >> \o InsertSorted(Tail(sorted), p)

\* The pairs left in the order they are in.
SortSkipped(params) == params

\* params.sort(): stable, by name in code unit order.
RECURSIVE Sort(_)
Sort(params) ==
  IF params = << >> THEN << >>
  ELSE InsertSorted(Sort(SubSeq(params, 1, Len(params) - 1)),
                    params[Len(params)])

\* The application/x-www-form-urlencoded percent-encoding of one unit.
EncodeUnit(c) ==
  IF IsDigestUnit(c) THEN << c >>
  ELSE IF c = "U+FFFD" THEN << "%", "E", "F", "%", "B", "F", "%", "B", "D" >>
  ELSE IF IsAlnum(c) \/ c \in {"*", "-", ".", "_"} THEN << c >>
  ELSE IF c = " " THEN << "+" >>
  ELSE << "%", UpperHex[(CodeUnit[c] \div 16) + 1],
               UpperHex[(CodeUnit[c] % 16) + 1] >>

UrlEncode(s) == Flatten([i \in 1..Len(s) |-> EncodeUnit(s[i])])

\* params.toString()
RECURSIVE Serialize(_)
Serialize(params) ==
  IF params = << >> THEN << >>
  ELSE UrlEncode(Head(params).name) \o << "=" >> \o UrlEncode(Head(params).value)
       \o (IF Len(params) > 1 THEN << "&" >> ELSE << >>)
       \o Serialize(Tail(params))

\* The loop of lines 15-18 and 41-44: one "name=value\n" per pair.
RECURSIVE AppendLines(_, _)
AppendLines(acc, params) ==
  IF params = << >> THEN acc
  ELSE AppendLines(acc \o Head(params).name \o << "=" >> \o Head(params).value
                       \o << "\n" >>,
                   Tail(params))

\* Lines 15-19 and 41-45.
DataCheckString(params) == SliceDropLast(AppendLines(<< >>, params))

(***************************************************************************)
(* The signing scheme of the two authorities (Telegram, which issues the   *)
(* init data, and the Super App Backend, which checks the result): the     *)
(* pairs other than hash, sorted by name, as name=value lines joined by a  *)
(* newline, signed with the key HMAC("WebAppData", secret).                *)
(***************************************************************************)

Min(S) == CHOOSE x \in S : \A y \in S : x <= y

\* a before b in code unit order.
SchemeLess(a, b) ==
  LET n == IF Len(a) < Len(b) THEN Len(a) ELSE Len(b)
      d == {i \in 1..n : a[i] # b[i]}
  IN  IF d = {} THEN Len(a) < Len(b)
      ELSE CodeUnit[a[Min(d)]] < CodeUnit[b[Min(d)]]

\* The pairs in order of name; pairs of one name keep their order.
RECURSIVE SchemeSort(_)
SchemeSort(pairs) ==
  IF pairs = << >> THEN << >>
  ELSE LET i == Min({k \in 1..Len(pairs) :
                       \A j \in 1..Len(pairs) :
                         ~SchemeLess(pairs[j].name, pairs[k].name)})
       IN  << pairs[i] >>
           \o SchemeSort(SubSeq(pairs, 1, i - 1) \o SubSeq(pairs, i + 1, Len(pairs)))

RECURSIVE SchemeJoin(_, _)
SchemeJoin(lines, sep) ==
  IF lines = << >> THEN << >>
  ELSE IF Len(lines) = 1 THEN lines[1]
  ELSE lines[1] \o sep \o SchemeJoin(Tail(lines), sep)

WithoutHash(pairs) == SelectSeq(pairs, LAMBDA p : p.name # k_hash)

\* The check string of a pair list that carries no hash pair.
SchemeLines(pairs) ==
  LET sorted == SchemeSort(pairs)
  IN  SchemeJoin([i \in 1..Len(sorted) |->
                    sorted[i].name \o << "=" >> \o sorted[i].value],
                 << "\n" >>)

SchemeCheckString(pairs) == SchemeLines(WithoutHash(pairs))

SchemeSign(secret, checkString) ==
  HexDigest(Hmac(Hmac(WebAppData, secret), checkString))

\* What a verifier that holds secret accepts.
SchemeVerifies(secret, pairs) ==
  /\ IsString(secret)
  /\ Get(pairs, k_hash) = SchemeSign(secret, SchemeCheckString(pairs))


(***************************************************************************)
(* Bounds and the inputs of the model                                      *)
(***************************************************************************)

\* The largest number of pairs other than hash in a generated credential.
MaxPairs == 2

\* The number of requests in flight at once (ConcSpec).
NumRequests == 2

Requests == 1..NumRequests

k_auth_date == << "a", "u", "t", "h", "_", "d", "a", "t", "e" >>

k_user == << "u", "s", "e", "r" >>

\* A value that the wire form has to escape.
v_special == << "{", " ", "+", "=", "&", "%", "\n", "}" >>

Values == {<< "1" >>, v_special}

\* The secrets of a correctly configured deployment.
TelegramToken == << "T", "0", "K" >>

CapxClientId == << "c", "i", "d", "7" >>

CapxClientSecret == << "S", "3", "C" >>

SeqsUpTo(S, n) == UNION {[1..k -> S] : k \in 0..n}

\* The pairs a generated credential is made of: a name below client_id
\* with either value, a name above it in code unit order, and a client_id
\* pair of the caller.
InputPairs ==
  {Pair(k_auth_date, v) : v \in Values}
    \cup {Pair(k_user, << "1" >>), Pair(k_client_id, CapxClientId)}

\* The pairs of a credential before it is signed.
DataLists == SeqsUpTo(InputPairs, MaxPairs)

\* The signature a holder of secret puts on the pairs d (Telegram, with
\* the bot token).
IssuerHash(secret, d) == SchemeSign(secret, SchemeCheckString(d))

\* d with the value of one pair changed.
Tampered(d) ==
  {[d EXCEPT ![i] = Pair(d[i].name, v)] :
     i \in 1..Len(d), v \in Values} \ {d}

v_garbage == << "b", "a", "d" >>

\* The hash values a caller may attach to the pairs d: the issuer's, one
\* made with the empty secret, the issuer's for pairs that differ in one
\* value, and one that is no digest.
HashChoices(d) ==
  {IssuerHash(TelegramToken, d), IssuerHash(<< >>, d), v_garbage}
    \cup {IssuerHash(TelegramToken, t) : t \in Tampered(d)}

\* The credentials of the model as pair lists: no hash pair, one hash pair
\* in front or behind, or two hash pairs.
Credentials ==
  UNION {
    {d}
      \cup {d \o << Pair(k_hash, h) >> : h \in HashChoices(d)}
      \cup {<< Pair(k_hash, h) >> \o d :
              h \in {IssuerHash(TelegramToken, d), v_garbage}}
      \cup {<< Pair(k_hash, h1) >> \o d \o << Pair(k_hash, h2) >> :
              h1 \in {IssuerHash(TelegramToken, d), v_garbage},
              h2 \in {IssuerHash(TelegramToken, d), v_garbage}}
    : d \in DataLists}

\* A credential in the wire form the client sends.
StringBody(text) == MkBody(TRUE, "string", text, << >>)

\* Wire forms written by hand: a leading "?", empty pieces, a piece
\* without "=", "+" and %20 for a space, a "%" that starts no escape.
w_user_piece == << "u", "s", "e", "r", "=", "a", "+", "b", "%", "2", "0", "%", "z" >>

d_user_piece == << Pair(k_user, << "a", " ", "b", " ", "%", "z" >>) >>

w_hash_piece == << "h", "a", "s", "h", "=" >> \o IssuerHash(TelegramToken, d_user_piece)

HandWritten ==
  { << "?" >> \o w_user_piece \o << "&" >> \o w_hash_piece,
    << "&" >> \o w_user_piece \o << "&", "&" >> \o w_hash_piece \o << "&" >>,
    << "u", "s", "e", "r", "&" >> \o << "h", "a", "s", "h", "=" >>
       \o IssuerHash(TelegramToken, << Pair(k_user, << >>) >>),
    << "h", "a", "s", "h" >>,
    << >> }

\* Bodies that carry no string: no body at all, a body without initData,
\* an array of [name, value] tuples, an array with a short tuple.
NoBody == MkBody(FALSE, "undefined", << >>, << >>)

NoInitData == MkBody(TRUE, "undefined", << >>, << >>)

TupleBody ==
  MkBody(TRUE, "array", << >>,
         << << k_user, << "1" >> >>,
            << k_hash, IssuerHash(TelegramToken, << Pair(k_user, << "1" >>) >>) >> >>)

ShortTupleBody == MkBody(TRUE, "array", << >>, << << k_user >> >>)

Bodies ==
  {StringBody(Serialize(c)) : c \in Credentials}
    \cup {StringBody(w) : w \in HandWritten}
    \cup {NoBody, NoInitData, TupleBody, ShortTupleBody}

\* The bodies of the requests that run side by side.
ConcBodies ==
  { StringBody(Serialize(<< Pair(k_user, v_special),
                            Pair(k_hash, IssuerHash(TelegramToken,
                                           << Pair(k_user, v_special) >>)) >>)),
    StringBody(Serialize(<< Pair(k_user, << "1" >>), Pair(k_hash, v_garbage) >>)),
    NoInitData,
    ShortTupleBody }

\* process.env: each variable is a string or is not set.
MkEnv(t, i, s) == [BOT_TOKEN |-> t, CLIENT_ID |-> i, CLIENT_SECRET |-> s]

Configured == MkEnv(TelegramToken, CapxClientId, CapxClientSecret)

\* The environments of the model: the bot token in each of its three
\* states beside a complete client configuration, the client identifier
\* and secret in each combination of theirs beside a set bot token, and
\* all three empty or all three unset.
Envs ==
  {MkEnv(t, CapxClientId, CapxClientSecret) :
     t \in {TelegramToken, << >>, Undefined}}
    \cup {MkEnv(TelegramToken, i, s) :
            i \in {CapxClientId, << >>, Undefined},
            s \in {CapxClientSecret, << >>, Undefined}}
    \cup {MkEnv(<< >>, << >>, << >>), MkEnv(Undefined, Undefined, Undefined)}

\* A request slot that holds no request.
Unused == "unused"

(***************************************************************************)
(* State                                                                   *)
(***************************************************************************)

\* process.env
VARIABLE env

\* req.body of each request
VARIABLE body

\* where each invocation of verifyInitData stands
VARIABLE pc

\* the locals of each invocation
VARIABLE BOT_TOKEN

VARIABLE urlParams

VARIABLE hash

VARIABLE dataCheckString

VARIABLE centralHash

\* the responses written to res, in order
VARIABLE sent

\* where the effect of UserAuthContext that posted each request stands
VARIABLE maf

\* the calls each run of that effect has made to the Super App Backend
VARIABLE sab

vars == << env, body, pc, BOT_TOKEN, urlParams, hash, dataCheckString,
           centralHash, sent, maf, sab >>

frontend == << maf, sab >>

locals == << BOT_TOKEN, urlParams, hash, dataCheckString, centralHash >>

\* One set of locals for all calls, as variables of the module would be.
FrameShared(r) == 1

\* The activation of verifyInitData that holds the locals of request r:
\* const and let bind once per call.
Frame(r) == r

\* res.status(code).json({success, message}) and res.json({success, initData})
Response(status, success, message, initData) ==
  [status |-> status, success |-> success, message |-> message,
   initData |-> initData]

m_invalid == "Invalid InitData"

m_server == "Server error"

InvalidInitData == Response(401, FALSE, m_invalid, Undefined)

ServerError == Response(500, FALSE, m_server, Undefined)

Success(initData) == Response(200, TRUE, "", initData)

\* The comparison switched off.
HashMismatchIgnored(h, calculatedHash) == FALSE

\* The comparison made only when a hash pair was sent.
HashMismatchWhenPresent(h, calculatedHash) == h # Null /\ h # calculatedHash

\* hash !== calculatedHash
HashMismatch(h, calculatedHash) == h # calculatedHash

(***************************************************************************)
(* The effect of UserAuthContext (the mini-app front end)                  *)
(***************************************************************************)

\* if (initDataRaw): the effect posts {initData: initDataRaw} for a launch
\* whose init data is a string that is not empty; any other request comes
\* from another client.
PostedByEffect(b) == b.present /\ b.type = "string" /\ b.text # << >>

\* axios taking every status for a success (validateStatus: () => true).
AxiosNeverRejects(status) == FALSE

\* axios rejects the promise of a response whose status is not 2xx.
AxiosRejects(status) == status < 200 \/ status >= 300

\* A call to the Super App Backend: createUser posts /users/auth with the
\* header x-initdata, getUserDetails gets /users.
CreateUserCall(initData) == [op |-> "createUser", initData |-> initData]

GetUserDetailsCall == [op |-> "getUserDetails", initData |-> Undefined]

InitLocals ==
  /\ BOT_TOKEN = [r \in Requests |-> Undefined]
  /\ urlParams = [r \in Requests |-> << >>]
  /\ hash = [r \in Requests |-> Undefined]
  /\ dataCheckString = [r \in Requests |-> Undefined]
  /\ centralHash = [r \in Requests |-> Undefined]
  /\ sent = [r \in Requests |-> << >>]
  /\ maf = [r \in Requests |-> IF PostedByEffect(body[r]) THEN "awaiting" ELSE "none"]
  /\ sab = [r \in Requests |-> << >>]

\* One request, any body, any environment.
Init ==
  /\ env \in Envs
  /\ \E b \in Bodies :
       body = [r \in Requests |-> IF r = 1 THEN b ELSE NoBody]
  /\ pc = [r \in Requests |-> IF r = 1 THEN "start" ELSE Unused]
  /\ InitLocals

\* NumRequests requests at once.
ConcInit ==
  /\ env \in {Configured,
              MkEnv(TelegramToken, Undefined, CapxClientSecret),
              MkEnv(TelegramToken, CapxClientId, Undefined)}
  /\ body \in [Requests -> ConcBodies]
  /\ pc = [r \in Requests |-> "start"]
  /\ InitLocals

(***************************************************************************)
(* verifyInitData, statement by statement                                  *)
(***************************************************************************)

\* The catch block: lines 58-61.
Catch(r) ==
  /\ sent' = [sent EXCEPT ![r] = Append(@, ServerError)]
  /\ pc' = [pc EXCEPT ![r] = "done"]

\* Lines 6-14: the body is destructured, the bot token read, initData
\* parsed, hash taken out and the pairs sorted.
ParseInitData(r) ==
  /\ pc[r] = "start"
  /\ IF ~body[r].present \/ ConstructorThrows(body[r])
     THEN /\ Catch(r)
          /\ UNCHANGED locals
     ELSE LET params == NewURLSearchParams(body[r])
          IN  /\ BOT_TOKEN' = [BOT_TOKEN EXCEPT ![Frame(r)] = env.BOT_TOKEN]
              /\ hash' = [hash EXCEPT ![Frame(r)] = Get(params, k_hash)]
              /\ urlParams' = [urlParams EXCEPT ![Frame(r)] =
                                 Sort(Delete(params, k_hash))]
              /\ pc' = [pc EXCEPT ![r] = "check"]
              /\ UNCHANGED << dataCheckString, centralHash, sent >>
  /\ UNCHANGED << env, body >>
  /\ UNCHANGED frontend

\* Lines 15-19.
BuildCheckString(r) ==
  /\ pc[r] = "check"
  /\ dataCheckString' = [dataCheckString EXCEPT ![Frame(r)] =
                           DataCheckString(urlParams[Frame(r)])]
  /\ pc' = [pc EXCEPT ![r] = "verify"]
  /\ UNCHANGED << env, body, BOT_TOKEN, urlParams, hash, centralHash, sent >>
  /\ UNCHANGED frontend

\* The first hash check without the return behind its 401: the handler
\* goes on to the second hash after it answered.
FirstHashCheckFallsThrough(r) ==
  /\ pc[r] = "verify"
  /\ IF UpdateThrows(BOT_TOKEN[Frame(r)])
     THEN Catch(r)
     ELSE /\ sent' = [sent EXCEPT ![r] =
                        IF HashMismatch(hash[Frame(r)],
                                        SignHex(BOT_TOKEN[Frame(r)],
                                                dataCheckString[Frame(r)]))
                        THEN Append(@, InvalidInitData) ELSE @]
          /\ pc' = [pc EXCEPT ![r] = "append"]
  /\ UNCHANGED << env, body, locals >>
  /\ UNCHANGED frontend

\* Lines 22-32: the first hash check.
FirstHashCheck(r) ==
  /\ pc[r] = "verify"
  /\ IF UpdateThrows(BOT_TOKEN[Frame(r)])
     THEN Catch(r)
     ELSE IF HashMismatch(hash[Frame(r)],
                          SignHex(BOT_TOKEN[Frame(r)], dataCheckString[Frame(r)]))
          THEN /\ sent' = [sent EXCEPT ![r] = Append(@, InvalidInitData)]
               /\ pc' = [pc EXCEPT ![r] = "done"]
          ELSE /\ pc' = [pc EXCEPT ![r] = "append"]
               /\ UNCHANGED sent
  /\ UNCHANGED << env, body, locals >>
  /\ UNCHANGED frontend

\* client_id appended and left where append put it, behind every pair.
AppendClientIdAtEnd(r) ==
  /\ pc[r] = "append"
  /\ urlParams' = [urlParams EXCEPT ![Frame(r)] =
                     AppendPair(@, k_client_id, env.CLIENT_ID)]
  /\ pc' = [pc EXCEPT ![r] = "recheck"]
  /\ UNCHANGED << env, body, BOT_TOKEN, hash, dataCheckString, centralHash,
                  sent >>
  /\ UNCHANGED frontend

\* Lines 35-39: client_id is appended and the pairs sorted again.
AppendClientId(r) ==
  /\ pc[r] = "append"
  /\ urlParams' = [urlParams EXCEPT ![Frame(r)] =
                     Sort(AppendPair(@, k_client_id, env.CLIENT_ID))]
  /\ pc' = [pc EXCEPT ![r] = "recheck"]
  /\ UNCHANGED << env, body, BOT_TOKEN, hash, dataCheckString, centralHash,
                  sent >>
  /\ UNCHANGED frontend

\* The check string of the first check kept for the second hash.
RebuildCheckStringSkipped(r) ==
  /\ pc[r] = "recheck"
  /\ pc' = [pc EXCEPT ![r] = "sign"]
  /\ UNCHANGED << env, body, locals, sent >>
  /\ UNCHANGED frontend

\* Lines 41-45.
RebuildCheckString(r) ==
  /\ pc[r] = "recheck"
  /\ dataCheckString' = [dataCheckString EXCEPT ![Frame(r)] =
                           DataCheckString(urlParams[Frame(r)])]
  /\ pc' = [pc EXCEPT ![r] = "sign"]
  /\ UNCHANGED << env, body, BOT_TOKEN, urlParams, hash, centralHash, sent >>
  /\ UNCHANGED frontend

\* Lines 47-51: the second hash, appended as the hash pair.
SecondHash(r) ==
  /\ pc[r] = "sign"
  /\ IF UpdateThrows(env.CLIENT_SECRET)
     THEN /\ Catch(r)
          /\ UNCHANGED locals
     ELSE LET h == SignHex(env.CLIENT_SECRET, dataCheckString[Frame(r)])
          IN  /\ centralHash' = [centralHash EXCEPT ![Frame(r)] = h]
              /\ urlParams' = [urlParams EXCEPT ![Frame(r)] =
                                 AppendPair(@, k_hash, h)]
              /\ pc' = [pc EXCEPT ![r] = "return"]
              /\ UNCHANGED << BOT_TOKEN, hash, dataCheckString, sent >>
  /\ UNCHANGED << env, body >>
  /\ UNCHANGED frontend

\* Lines 54-57.
ReturnResult(r) ==
  /\ pc[r] = "return"
  /\ sent' = [sent EXCEPT ![r] = Append(@, Success(Serialize(urlParams[Frame(r)])))]
  /\ pc' = [pc EXCEPT ![r] = "done"]
  /\ UNCHANGED << env, body, locals >>
  /\ UNCHANGED frontend

\* The effect after await axios.post(.../verify): a rejected promise is
\* caught and logged; otherwise createUser is called with data.initData
\* when there is no refresh_token cookie, getUserDetails when there is.
EffectResumes(r) ==
  /\ maf[r] = "awaiting"
  /\ pc[r] = "done"
  /\ sent[r] # << >>
  /\ IF AxiosRejects(sent[r][1].status)
     THEN /\ maf' = [maf EXCEPT ![r] = "caught"]
          /\ UNCHANGED sab
     ELSE \E refresh_token \in BOOLEAN :
            IF ~refresh_token
            THEN /\ sab' = [sab EXCEPT ![r] =
                              Append(@, CreateUserCall(sent[r][1].initData))]
                 /\ maf' = [maf EXCEPT ![r] = "createUser"]
            ELSE /\ sab' = [sab EXCEPT ![r] = Append(@, GetUserDetailsCall)]
                 /\ maf' = [maf EXCEPT ![r] = "getUserDetails"]
  /\ UNCHANGED << env, body, pc, locals, sent >>

\* The handler from its first statement to its response, as one function
\* of the body and the environment.
RunAlone(b, e) ==
  IF ~b.present \/ ConstructorThrows(b) THEN ServerError
  ELSE
    LET params == NewURLSearchParams(b)
        h == Get(params, k_hash)
        first == Sort(Delete(params, k_hash))
    IN  IF UpdateThrows(e.BOT_TOKEN) THEN ServerError
        ELSE IF HashMismatch(h, SignHex(e.BOT_TOKEN, DataCheckString(first)))
        THEN InvalidInitData
        ELSE
          LET second == Sort(AppendPair(first, k_client_id, e.CLIENT_ID))
          IN  IF UpdateThrows(e.CLIENT_SECRET) THEN ServerError
              ELSE Success(Serialize(
                     AppendPair(second, k_hash,
                                SignHex(e.CLIENT_SECRET, DataCheckString(second)))))

\* The statements of the requests in flight, interleaved in every way.  (An
\* async function without await runs to its end in one turn of the event
\* loop; every run of the server is among these interleavings.)
Next ==
  \E r \in Requests :
    \/ ParseInitData(r)
    \/ BuildCheckString(r)
    \/ FirstHashCheck(r)
    \/ AppendClientId(r)
    \/ RebuildCheckString(r)
    \/ SecondHash(r)
    \/ ReturnResult(r)
    \/ EffectResumes(r)

\* The statements of the handler for one request.
Step(r) ==
  \/ ParseInitData(r)
  \/ BuildCheckString(r)
  \/ FirstHashCheck(r)
  \/ AppendClientId(r)
  \/ RebuildCheckString(r)
  \/ SecondHash(r)
  \/ ReturnResult(r)

\* How far the handler is for a request.
Position ==
  [p \in {"start", "check", "verify", "append", "recheck", "sign", "return",
          "done"} |->
     CASE p = "start" -> 0 [] p = "check" -> 1 [] p = "verify" -> 2
       [] p = "append" -> 3 [] p = "recheck" -> 4 [] p = "sign" -> 5
       [] p = "return" -> 6 [] p = "done" -> 7]

\* Express has called the handler for the request.
Called(r) == pc[r] # Unused

\* The handler is called and has not come to its end.
Running(r) == Called(r) /\ pc[r] # "done"

\* The handler goes from where it is to a later statement or to its end.
\* A step of Next is an Advances(r) step exactly when it is a Step(r)
\* step, and Step(r) can be taken whenever Running(r) holds.
Advances(r) ==
  /\ Running(r)
  /\ \E p \in DOMAIN Position :
       /\ Position[p] > Position[pc[r]]
       /\ pc' = [pc EXCEPT ![r] = p]

\* The handler awaits nothing: once Express has called it, the engine runs
\* it statement by statement to its response or its catch.
Fairness == \A r \in Requests : WF_pc(Advances(r))

Spec == Init /\ [][Next]_vars

ConcSpec == ConcInit /\ [][Next]_vars

FairConcSpec == ConcInit /\ [][Next]_vars /\ Fairness

(***************************************************************************)
(* A request seen from outside                                             *)
(***************************************************************************)

\* initData can be decoded into pairs.
Decodable(b) == b.present /\ ~ConstructorThrows(b)

\* The pairs the request carries.
Supplied(r) == NewURLSearchParams(body[r])

\* The request carries a credential that verifies under the bot token.
Genuine(r) ==
  /\ Decodable(body[r])
  /\ SchemeVerifies(env.BOT_TOKEN, Supplied(r))

Done(r) == pc[r] = "done"

Succeeded(r) == Done(r) /\ Len(sent[r]) = 1 /\ sent[r][1].success

\* The pairs of the credential a successful request got back.
Returned(r) == ParseQuery(sent[r][1].initData)

(***************************************************************************)
(* C1  Verify-reject.  A request whose hash differs from the HMAC of its   *)
(* check string under the key derived from BOT_TOKEN (a request without a  *)
(* hash pair included) never reaches the second signing step, no second    *)
(* hash is computed and no credential is returned for it; when the check   *)
(* string and the HMAC exist (initData decodes, BOT_TOKEN is set) the      *)
(* answer is the 401 rejection with success false.                         *)
(***************************************************************************)
C1_VerifyReject ==
  \A r \in Requests :
    (pc[r] # Unused /\ ~Genuine(r)) =>
      /\ pc[r] \notin {"append", "recheck", "sign", "return"}
      /\ centralHash[Frame(r)] = Undefined
      /\ \A i \in 1..Len(sent[r]) :
           ~sent[r][i].success /\ sent[r][i].initData = Undefined
      /\ (Done(r) /\ Decodable(body[r]) /\ IsString(env.BOT_TOKEN)) =>
           sent[r] = << InvalidInitData >>

\* A request with pairs but no hash pair has been answered with 401.
C1_Witness ==
  \E r \in Requests :
    /\ Done(r)
    /\ Decodable(body[r])
    /\ IsString(env.BOT_TOKEN)
    /\ Supplied(r) # << >>
    /\ Get(Supplied(r), k_hash) = Null
    /\ sent[r] = << InvalidInitData >>

(***************************************************************************)
(* C2  Verify-accept and re-sign round trip.  Every request whose          *)
(* credential verifies under the bot token is answered with success        *)
(* (given that CLIENT_SECRET is set, without which nothing can be          *)
(* signed), and the returned string, decoded, stripped of its hash pair,   *)
(* sorted by name, joined as name=value lines and signed with the key      *)
(* derived from CLIENT_SECRET, gives the hash value the string carries.    *)
(***************************************************************************)
C2_ReSignRoundTrip ==
  \A r \in Requests :
    (Done(r) /\ Genuine(r) /\ IsString(env.CLIENT_SECRET)) =>
      /\ Succeeded(r)
      /\ sent[r][1].status = 200
      /\ SchemeVerifies(env.CLIENT_SECRET, Returned(r))

\* A credential of two pairs, one with a value the wire form escapes, went
\* through a configured server.
C2_Witness ==
  \E r \in Requests :
    /\ Succeeded(r)
    /\ Genuine(r)
    /\ env = Configured
    /\ Len(WithoutHash(Supplied(r))) >= 2
    /\ \E i \in 1..Len(Supplied(r)) : Supplied(r)[i].value = v_special
    /\ SchemeVerifies(env.CLIENT_SECRET, Returned(r))

(***************************************************************************)
(* C3  Composition of the re-signed credential.  On success the returned   *)
(* pairs are, as a multiset, the supplied pairs without every hash pair,   *)
(* one more client_id pair and exactly one hash pair; that hash pair       *)
(* holds the digest under the client secret and not the hash that was      *)
(* supplied.                                                               *)
(***************************************************************************)
BagOf(seq) ==
  [x \in {seq[i] : i \in 1..Len(seq)} |->
     Cardinality({i \in 1..Len(seq) : seq[i] = x})]

C3_Composition ==
  \A r \in Requests :
    Succeeded(r) =>
      LET out == Returned(r)
      IN  /\ Cardinality({j \in 1..Len(out) : out[j].name = k_hash}) = 1
          /\ \E i, j \in 1..Len(out) :
               /\ out[i].name = k_client_id
               /\ out[j].name = k_hash
               /\ BagOf(out) = BagOf(WithoutHash(Supplied(r)))
                                 (+) SetToBag({out[i]}) (+) SetToBag({out[j]})
               /\ out[j].value =
                    SchemeSign(env.CLIENT_SECRET, SchemeCheckString(out))
               /\ out[j].value # Get(Supplied(r), k_hash)

\* A credential with two hash pairs and two other pairs of one name has
\* been re-signed.
C3_Witness ==
  \E r \in Requests :
    /\ Succeeded(r)
    /\ Cardinality({j \in 1..Len(Supplied(r)) : Supplied(r)[j].name = k_hash}) = 2
    /\ \E i, j \in 1..Len(Supplied(r)) :
         /\ i # j
         /\ Supplied(r)[i].name = Supplied(r)[j].name
         /\ Supplied(r)[i].name # k_hash
    /\ Len(Returned(r)) = Len(Supplied(r))

(***************************************************************************)
(* C4  Client-id binding.  With CLIENT_ID set, every returned credential   *)
(* has a client_id pair whose value is CLIENT_ID, and the returned hash    *)
(* no longer verifies under the client secret once such a pair is taken    *)
(* out or given another value.                                             *)
(***************************************************************************)
RemoveAt(seq, i) == SubSeq(seq, 1, i - 1) \o SubSeq(seq, i + 1, Len(seq))

OtherValues == Values \cup {<< >>, CapxClientId, ToUSVString(Undefined)}

C4_ClientIdBinding ==
  \A r \in Requests :
    (Succeeded(r) /\ IsString(env.CLIENT_ID)) =>
      LET out == Returned(r)
          bound == {i \in 1..Len(out) : out[i] = Pair(k_client_id, env.CLIENT_ID)}
      IN  /\ bound # {}
          /\ \A i \in bound :
               /\ ~SchemeVerifies(env.CLIENT_SECRET, RemoveAt(out, i))
               /\ \A v \in OtherValues \ {env.CLIENT_ID} :
                    ~SchemeVerifies(env.CLIENT_SECRET,
                                    [out EXCEPT ![i] = Pair(k_client_id, v)])

\* A credential that brought a client_id pair of its own came back with
\* the configured one as well, and the result verifies as returned.
C4_Witness ==
  \E r \in Requests :
    /\ Succeeded(r)
    /\ env.CLIENT_ID = CapxClientId
    /\ Cardinality({i \in 1..Len(Returned(r)) :
                      Returned(r)[i] = Pair(k_client_id, CapxClientId)}) = 2
    /\ SchemeVerifies(env.CLIENT_SECRET, Returned(r))

(***************************************************************************)
(* C5  Canonicalization determinism.  As stated: whatever the order in     *)
(* which a request presents its pairs, pairs of one name included, the     *)
(* check string the handler builds is the same.                            *)
(***************************************************************************)
PermutationsOf(seq) ==
  {[i \in 1..Len(seq) |-> seq[f[i]]] : f \in Permutations(1..Len(seq))}

\* The check string the handler builds from the pairs q (lines 11-19).
HandlerCheckString(q) == DataCheckString(Sort(Delete(q, k_hash)))

C5_AnyOrderAsStated ==
  \A r \in Requests :
    pc[r] = "verify" =>
      \A q \in PermutationsOf(Supplied(r)) :
        HandlerCheckString(q) = dataCheckString[Frame(r)]

\* No two pairs other than hash have one name and different values.
NamesAgree(pairs) ==
  \A i, j \in 1..Len(pairs) :
    (pairs[i].name = pairs[j].name /\ pairs[i].name # k_hash) =>
      pairs[i].value = pairs[j].value

(***************************************************************************)
(* C5 as amended: the check string is the same for every order of the      *)
(* pairs when no two pairs have one name and different values; pairs of    *)
(* one name stay in the order they came in.                                *)
(***************************************************************************)
C5_AnyOrderNamesAgree ==
  \A r \in Requests :
    (pc[r] = "verify" /\ NamesAgree(Supplied(r))) =>
      \A q \in PermutationsOf(Supplied(r)) :
        HandlerCheckString(q) = dataCheckString[Frame(r)]

\* The check string was built from pairs that came out of name order.
C5_Witness ==
  \E r \in Requests :
    /\ pc[r] = "verify"
    /\ NamesAgree(Supplied(r))
    /\ Len(WithoutHash(Supplied(r))) >= 2
    /\ WithoutHash(Supplied(r)) # SchemeSort(WithoutHash(Supplied(r)))
    /\ dataCheckString[Frame(r)] = SchemeCheckString(Supplied(r))

(***************************************************************************)
(* C6  Canonicalization exclusion.  The check string of the first check    *)
(* is made of the supplied pairs other than hash, the check string of      *)
(* the second hash of those and the client_id pair; no line of either      *)
(* starts with "hash=", wherever the hash pairs stood and however many     *)
(* there were.                                                             *)
(***************************************************************************)
HasPrefix(str, prefix) ==
  Len(str) >= Len(prefix) /\ SubSeq(str, 1, Len(prefix)) = prefix

NoHashLine(checkString) ==
  \A i \in 1..Len(Split(checkString, "\n")) :
    ~HasPrefix(Split(checkString, "\n")[i], k_hash \o << "=" >>)

C6_HashExcluded ==
  \A r \in Requests :
    /\ pc[r] = "verify" =>
         /\ dataCheckString[Frame(r)] = SchemeLines(WithoutHash(Supplied(r)))
         /\ NoHashLine(dataCheckString[Frame(r)])
    /\ pc[r] = "sign" =>
         /\ dataCheckString[Frame(r)] =
              SchemeLines(WithoutHash(Supplied(r))
                            \o << Pair(k_client_id, ToUSVString(env.CLIENT_ID)) >>)
         /\ NoHashLine(dataCheckString[Frame(r)])

\* The second check string of a credential that had a hash pair in front
\* and another behind.
C6_Witness ==
  \E r \in Requests :
    /\ pc[r] = "sign"
    /\ Len(Supplied(r)) >= 3
    /\ Supplied(r)[1].name = k_hash
    /\ Supplied(r)[Len(Supplied(r))].name = k_hash
    /\ NoHashLine(dataCheckString[Frame(r)])

(***************************************************************************)
(* C7  Tamper rejection.  A request whose pairs are those of a credential  *)
(* that verifies under the bot token, with the value of one pair other     *)
(* than hash changed and the hash pair as it was, is answered with the     *)
(* 401 rejection.                                                          *)
(***************************************************************************)
\* The pair lists that differ from pairs in the value of one pair other
\* than hash.
OneValueChanged(pairs) ==
  {[pairs EXCEPT ![i] = Pair(pairs[i].name, v)] :
     i \in {k \in 1..Len(pairs) : pairs[k].name # k_hash},
     v \in OtherValues} \ {pairs}

TamperedRequest(r) ==
  /\ Decodable(body[r])
  /\ \E original \in OneValueChanged(Supplied(r)) :
       SchemeVerifies(env.BOT_TOKEN, original)

C7_TamperRejected ==
  \A r \in Requests :
    (Done(r) /\ TamperedRequest(r)) => sent[r] = << InvalidInitData >>

\* A tampered credential has been rejected.
C7_Witness ==
  \E r \in Requests :
    /\ Done(r)
    /\ TamperedRequest(r)
    /\ Get(Supplied(r), k_hash) # Null
    /\ sent[r] = << InvalidInitData >>

(***************************************************************************)
(* C8  Misconfiguration handling.  As stated: whenever BOT_TOKEN,          *)
(* CLIENT_ID or CLIENT_SECRET is not set or is empty, the request ends in  *)
(* the server error, not in the 401 rejection, and no second hash is       *)
(* computed and no credential returned.                                    *)
(***************************************************************************)
Misconfigured ==
  \E x \in {env.BOT_TOKEN, env.CLIENT_ID, env.CLIENT_SECRET} :
    x = Undefined \/ x = << >>

C8_MisconfigurationIsServerError ==
  \A r \in Requests :
    (pc[r] # Unused /\ Misconfigured) =>
      /\ centralHash[Frame(r)] = Undefined
      /\ Done(r) => sent[r] = << ServerError >>

(***************************************************************************)
(* C9  Malformed-input handling.  As stated: a request without a body,     *)
(* without initData, or with an initData that cannot be read as pairs is   *)
(* answered once, with a rejection that is neither the 401 rejection of    *)
(* an invalid signature nor the server error (checked on a server whose    *)
(* environment is complete, where no server error is due).                 *)
(***************************************************************************)
Malformed(b) == ~b.present \/ b.type = "undefined" \/ ConstructorThrows(b)

C9_MalformedIsItsOwnOutcome ==
  \A r \in Requests :
    (Done(r) /\ Malformed(body[r]) /\ env = Configured) =>
      /\ Len(sent[r]) = 1
      /\ ~sent[r][1].success
      /\ sent[r][1] # InvalidInitData
      /\ sent[r][1] # ServerError

(***************************************************************************)
(* C10  Invocation independence.  With several requests in flight and      *)
(* their statements interleaved in any way, every request is answered as   *)
(* it would be alone; a step of one request leaves the locals and the      *)
(* response of every other request as they were; process.env and the       *)
(* request bodies are never written.                                       *)
(***************************************************************************)
AnsweredAsAlone ==
  \A r \in Requests : Done(r) => sent[r] = << RunAlone(body[r], env) >>

OthersUntouched ==
  \A r \in Requests :
    pc'[r] = pc[r] =>
      /\ BOT_TOKEN'[r] = BOT_TOKEN[r]
      /\ urlParams'[r] = urlParams[r]
      /\ hash'[r] = hash[r]
      /\ dataCheckString'[r] = dataCheckString[r]
      /\ centralHash'[r] = centralHash[r]
      /\ sent'[r] = sent[r]

C10_Independence ==
  /\ []AnsweredAsAlone
  /\ [][OthersUntouched]_vars
  /\ [][env' = env /\ body' = body]_vars

\* One request has been answered with a credential while another, with a
\* different body, stands between its parse and its hash check.
C10_Witness ==
  \E r1, r2 \in Requests :
    /\ r1 # r2
    /\ body[r1] # body[r2]
    /\ Succeeded(r1)
    /\ sent[r1] = << RunAlone(body[r1], env) >>
    /\ pc[r2] \in {"check", "verify"}


(***************************************************************************)
(* C11  Front-end hand-off ordering.  The effect calls createUser only     *)
(* after the /verify request it posted for the same init data was answered *)
(* with success, and the init data it hands over is the string that        *)
(* response carried (the re-signed one, not the raw launch data); when the *)
(* /verify request is answered with a failure, or not answered yet, the    *)
(* effect has called neither createUser nor getUserDetails.                *)
(***************************************************************************)
CalledCreateUser(r) ==
  \E i \in DOMAIN sab[r] : sab[r][i].op = "createUser"

C11_HandOffOrdering ==
  \A r \in Requests :
    /\ sab[r] # << >> => Succeeded(r) /\ PostedByEffect(body[r])
    /\ \A i \in DOMAIN sab[r] :
         sab[r][i].op = "createUser" =>
           /\ sab[r][i].initData = sent[r][1].initData
           /\ sab[r][i].initData # body[r].text
           /\ SchemeVerifies(env.CLIENT_SECRET, ParseQuery(sab[r][i].initData))
    /\ Len(sab[r]) <= 1

C11_Witness ==
  \E r \in Requests :
    /\ Succeeded(r)
    /\ maf[r] = "createUser"
    /\ sab[r] = << CreateUserCall(sent[r][1].initData) >>


(***************************************************************************)
(* C12  Re-sign check string ordering.  The check string of the second     *)
(* hash is made of the lines name=value of the supplied pairs other than   *)
(* hash and of the client_id pair, in order of name: the client_id line    *)
(* stands behind the lines of every name not above client_id and before    *)
(* the lines of every name above it, not at the end where it was appended. *)
(* One newline stands between two lines and none behind the last line; a   *)
(* pair collection that is empty gives the empty check string.             *)
(***************************************************************************)
LineOf(p) == p.name \o << "=" >> \o p.value

ClientIdPair == Pair(k_client_id, ToUSVString(env.CLIENT_ID))

\* The pairs whose lines stand before the client_id line.
NotAbove(pairs) ==
  SchemeSort(SelectSeq(pairs, LAMBDA p : ~SchemeLess(k_client_id, p.name)))

\* The pairs whose lines stand behind the client_id line.
Above(pairs) ==
  SchemeSort(SelectSeq(pairs, LAMBDA p : SchemeLess(k_client_id, p.name)))

RECURSIVE LinesLength(_)
LinesLength(pairs) ==
  IF pairs = << >> THEN 0
  ELSE Len(LineOf(Head(pairs))) + LinesLength(Tail(pairs))

\* The check string is the lines of pairs, one newline between two lines.
LinesJoined(checkString, pairs) ==
  /\ Len(checkString) =
       IF pairs = << >> THEN 0 ELSE LinesLength(pairs) + Len(pairs) - 1
  /\ \A i \in 1..Len(pairs) :
       LET from == LinesLength(SubSeq(pairs, 1, i - 1)) + i - 1
           line == LineOf(pairs[i])
       IN  /\ SubSeq(checkString, from + 1, from + Len(line)) = line
           /\ i < Len(pairs) => checkString[from + Len(line) + 1] = "\n"

C12_ReSignOrdering ==
  \A r \in Requests :
    LET supplied == WithoutHash(Supplied(r))
    IN  /\ pc[r] = "verify" =>
             /\ LinesJoined(dataCheckString[Frame(r)], SchemeSort(supplied))
             /\ supplied = << >> => dataCheckString[Frame(r)] = << >>
        /\ pc[r] = "sign" =>
             LinesJoined(dataCheckString[Frame(r)],
                         NotAbove(supplied) \o << ClientIdPair >> \o Above(supplied))

\* A second check string with the client_id line between the auth_date
\* line and the user line.
C12_Witness ==
  \E r \in Requests :
    /\ pc[r] = "sign"
    /\ NotAbove(WithoutHash(Supplied(r))) # << >>
    /\ Above(WithoutHash(Supplied(r))) # << >>
    /\ HasPrefix(dataCheckString[Frame(r)], k_auth_date \o << "=" >>)


(***************************************************************************)
(* C13  Single terminal response.  Every request the handler is called     *)
(* for gets a response (the handler always reaches its end), it never has  *)
(* more than one, and the one it has is a success that carries the         *)
(* re-signed credential string, the 401 rejection or the 500 server error. *)
(* No statement of the handler runs a second time for a request: the       *)
(* handler only moves forward, and a response once sent is never changed.  *)
(***************************************************************************)
IsSuccessResponse(r, res) ==
  /\ res.status = 200
  /\ res.success
  /\ IsString(res.initData)
  /\ SchemeVerifies(env.CLIENT_SECRET, ParseQuery(res.initData))
  /\ res.initData = Serialize(urlParams[Frame(r)])

IsRejection(res) ==
  /\ res.status = 401
  /\ ~res.success
  /\ res.message = "Invalid InitData"
  /\ res.initData = Undefined

IsServerError(res) ==
  /\ res.status = 500
  /\ ~res.success
  /\ res.message = "Server error"
  /\ res.initData = Undefined

OneResponse ==
  \A r \in Requests :
    Called(r) =>
      /\ Len(sent[r]) <= 1
      /\ Len(sent[r]) = 1 <=> Done(r)
      /\ Done(r) =>
           \/ IsSuccessResponse(r, sent[r][1])
           \/ IsRejection(sent[r][1])
           \/ IsServerError(sent[r][1])

NoRetry ==
  \A r \in Requests :
    /\ Step(r) <=> Advances(r)
    /\ Called(r) <=> pc'[r] # Unused
    /\ sent[r] # << >> => sent'[r] = sent[r]

C13_SingleTerminalResponse ==
  /\ []OneResponse
  /\ [][NoRetry]_vars
  /\ \A r \in Requests : Called(r) ~> Done(r)

\* Two requests answered, one with the re-signed credential and one with
\* a failure.
C13_Witness ==
  \E r, q \in Requests :
    /\ Done(r) /\ Len(sent[r]) = 1 /\ sent[r][1].status = 200
    /\ Done(q) /\ Len(sent[q]) = 1 /\ sent[q][1].status \in {401, 500}

====
